---- MODULE Spec2Model ----
(***************************************************************************)
(* A model of the notebooks' two stateful utilities:                       *)
(*   - interactive_proposal.py: PointSelector (the click/button handlers)  *)
(*     and select_points (load / interactive session / save);              *)
(*   - helpers.py: PhaseLookupCalculator (__call__, _filename,             *)
(*     _calculate_lookup) with its per-(group, location) cache files.      *)
(* The two parts share no state; each is explored by its own               *)
(* specification (SpecSelect; SpecSweep and SpecCache).                    *)
(***************************************************************************)
EXTENDS Integers, Sequences, FiniteSets, TLC

VARIABLES
    \* ---- PointSelector (interactive_proposal.py) ----
    selected_points,     \* self.selected_points: list of finished polylines
    current_line,        \* self.current_line: list of [x, y] points
    current_line_index,  \* self.current_line_index
    result,              \* self.result (None until on_close)
    event,               \* the handler that ran last (observation)
    nclicks,             \* button_press events delivered to this selector
    prev,                \* the three fields as the last handler found them
    clicked,             \* the points pressed inside the axes, in the order
                         \* of the presses, that no Clear button discarded
    \* ---- select_points (interactive_proposal.py) ----
    spc,                 \* position of select_points
    filename,            \* the filename argument ("" stands for None)
    pfile,               \* the file at the path: [exists, data]
    ret,                 \* the value select_points returned last
    constructed,         \* a PointSelector was constructed in this call
    load_failed,         \* pickle.load raised in this call
    save_failed,         \* the save block raised in this call
    saved,               \* the list a call that found no file saved
    file_at_call,        \* the file as this call found it
    \* ---- PhaseLookupCalculator (helpers.py) ----
    calc,                \* the calculator: lat, lon and the three grid axes
    files,               \* data_dir: file name -> the dataset stored in it
    file_origin,         \* file name -> (group, lat, lon) it was computed for
    unreadable,          \* the file names xr.open_dataset cannot open
    file_log,            \* file name -> [writes, pairs, written]: the to_netcdf
                         \* calls on it, the tracer calls of the sweep it
                         \* holds and the data variables to_netcdf wrote
    lpc,                 \* position of __call__
    phase_groups,        \* the groups of the phase_groups dict, in dict order
    gi,                  \* index of the group the for loop is at
    results,             \* the results dict: group -> dataset
    ds,                  \* the dataset _calculate_lookup is filling
    rec_i,               \* index into receiver_depth_grid
    src_i,               \* index into source_depth_grid
    arrivals,            \* what model.arrivals returned last
    traced,              \* [on, r, s]: the pair the last tracer call was for
    tracer_calls,        \* group -> calls of model.arrivals in this __call__
    err,                 \* the exception that ended this __call__, or ""
    ncalls,              \* __call__ invocations so far
    completed,           \* (group, lat, lon) of the invocations that returned
    prior                \* completed, as it was when this __call__ began

selvars == <<selected_points, current_line, current_line_index, result, event,
             nclicks, prev, clicked, spc, filename, pfile, ret, constructed, load_failed,
             save_failed, saved, file_at_call>>

lookvars == <<calc, files, unreadable, file_origin, file_log, lpc, phase_groups, gi, results, ds,
              rec_i, src_i, arrivals, traced, tracer_calls, err, ncalls,
              completed, prior>>

vars == <<selvars, lookvars>>

\* ------------------------------------------------------------------ bounds
MaxClicks == 2
MaxArrivals == 2
MaxCalls == 2

\* ------------------------------------------------------------ Python values
\* Optional values: Python's None against a value.
None == [none |-> TRUE, v |-> <<>>]
Some(x) == [none |-> FALSE, v |-> x]

\* Python truthiness of an optional list: None and [] are falsy.
Truthy(o) == ~o.none /\ o.v # <<>>

\* event.xdata.item(), event.ydata.item(): the points a click can deliver.
Points == {<<1, 2>>, <<3, 4>>}

\* ------------------------------------------------------------------ pickle
\* pickle.dump / pickle.load on a list of lists of [x, y] float pairs, as the
\* opcode stream the pickler writes and the stack machine the unpickler runs.
\* A float is written exactly (BINFLOAT holds the 8 bytes), a list as
\* EMPTY_LIST MEMOIZE followed by its batched appends, and the stream ends
\* with STOP.  The FRAME header and the memo contents are left out: every
\* list pickled here is a distinct object, so no memo entry is ever read.
Tok(op, arg) == [op |-> op, arg |-> arg]

RECURSIVE Concat(_)
Concat(ss) == IF ss = <<>> THEN <<>> ELSE Head(ss) \o Concat(Tail(ss))

\* The most items the pickler writes between one MARK and its APPENDS.
BATCHSIZE == 1000

\* The batches of a list of two or more items: MARK, up to BATCHSIZE items,
\* APPENDS, repeated until the list is exhausted (a last batch of one item
\* is written the same way).
RECURSIVE batches(_)
batches(items) ==
    IF items = <<>> THEN <<>>
    ELSE LET n == IF Len(items) < BATCHSIZE THEN Len(items) ELSE BATCHSIZE
         IN <<Tok("MARK", 0)>> \o Concat(SubSeq(items, 1, n))
               \o <<Tok("APPENDS", 0)>>
               \o batches(SubSeq(items, n + 1, Len(items)))

\* Pickler._batch_appends: nothing for [], item APPEND for a list of one
\* item, batches of MARK items APPENDS for more.
batch_appends(items) ==
    IF Len(items) = 0 THEN <<>>
    ELSE IF Len(items) = 1 THEN items[1] \o <<Tok("APPEND", 0)>>
    ELSE batches(items)

\* Pickler.save_list
save_list(items) ==
    <<Tok("EMPTY_LIST", 0), Tok("MEMOIZE", 0)>> \o batch_appends(items)

save_float(x) == <<Tok("BINFLOAT", x)>>

save_point(p) == save_list([i \in 1..Len(p) |-> save_float(p[i])])

save_line(l) == save_list([i \in 1..Len(l) |-> save_point(l[i])])

\* A dump that writes the polylines as one flat list of points.
pickle_dump_flat(L) ==
    <<Tok("PROTO", 4)>>
        \o save_list([i \in 1..Len(Concat(L)) |-> save_point(Concat(L)[i])])
        \o <<Tok("STOP", 0)>>

\* pickle.dump(points, f) for a list of polylines
pickle_dump(L) ==
    <<Tok("PROTO", 4)>> \o save_list([i \in 1..Len(L) |-> save_line(L[i])])
        \o <<Tok("STOP", 0)>>

\* ---- pickle.load ----
\* The unpickler is modelled for the binary opcodes that build None,
\* booleans, integers of up to four bytes, floats, lists and tuples, with
\* the memo and the stack opcodes.  The other opcodes of pickle (text
\* protocol, strings, bytes, long integers, dicts, sets, objects, extensions,
\* persistent ids, buffers) are outside the model: load_run has no branch
\* for them.  A token whose op is no pickle opcode at all is an invalid load
\* key.
ModelledOpcodes ==
    {"PROTO", "FRAME", "STOP", "MARK", "POP", "POP_MARK", "DUP",
     "NONE", "NEWTRUE", "NEWFALSE", "BININT", "BININT1", "BININT2", "BINFLOAT",
     "EMPTY_LIST", "LIST", "APPEND", "APPENDS",
     "EMPTY_TUPLE", "TUPLE", "TUPLE1", "TUPLE2", "TUPLE3",
     "MEMOIZE", "BINPUT", "LONG_BINPUT", "BINGET", "LONG_BINGET"}

UnmodelledOpcodes ==
    {"FLOAT", "INT", "LONG", "LONG1", "LONG4", "STRING", "BINSTRING",
     "SHORT_BINSTRING", "UNICODE", "BINUNICODE", "SHORT_BINUNICODE",
     "BINUNICODE8", "BINBYTES", "SHORT_BINBYTES", "BINBYTES8", "BYTEARRAY8",
     "NEXT_BUFFER", "READONLY_BUFFER", "GET", "PUT", "DICT", "EMPTY_DICT",
     "SETITEM", "SETITEMS", "EMPTY_SET", "ADDITEMS", "FROZENSET", "GLOBAL",
     "STACK_GLOBAL", "REDUCE", "BUILD", "INST", "OBJ", "NEWOBJ", "NEWOBJ_EX",
     "EXT1", "EXT2", "EXT4", "PERSID", "BINPERSID"}

\* The bytes an opcode and its argument take in the file.
OpSize(op) ==
    CASE op \in {"FRAME", "BINFLOAT"} -> 9
      [] op \in {"BININT", "LONG_BINPUT", "LONG_BINGET"} -> 5
      [] op = "BININT2" -> 3
      [] op \in {"PROTO", "BININT1", "BINPUT", "BINGET"} -> 2
      [] OTHER -> 1

\* The bytes of the file from token i on.
RECURSIVE BytesFrom(_, _)
BytesFrom(toks, i) ==
    IF i > Len(toks) THEN 0 ELSE OpSize(toks[i].op) + BytesFrom(toks, i + 1)

\* What the stack, the memo, the lists and the tuples hold: a reference to a
\* list object (lists are mutable and may be shared through the memo), a
\* tuple of such cells, None, or a boolean or number.
SRef(h) == [k |-> "ref", v |-> h]
STuple(cells) == [k |-> "tuple", v |-> cells]
SNone == [k |-> "none", v |-> <<>>]
SImm(x) == [k |-> "imm", v |-> x]
SMark == [k |-> "mark", v |-> <<>>]

LoadFail == [ok |-> FALSE, none |-> FALSE, v |-> <<>>]

\* The highest protocol the unpickler accepts.
HIGHEST_PROTOCOL == 5

\* The Python values that are no list and no number.
PyNone == [py |-> "None", items |-> <<>>]
PyTuple(items) == [py |-> "tuple", items |-> items]
PyRecursion == [py |-> "...", items |-> <<>>]

\* The value of a cell: a list as the sequence of its items' values, a number
\* or boolean as itself.  A list met again inside itself is shown the way
\* repr shows it.
RECURSIVE PyValue(_, _, _)
PyValue(cell, heap, path) ==
    CASE cell.k = "imm" -> cell.v
      [] cell.k = "none" -> PyNone
      [] cell.k = "tuple" ->
            PyTuple([j \in 1..Len(cell.v) |-> PyValue(cell.v[j], heap, path)])
      [] cell.k = "ref" ->
            IF cell.v \in path THEN PyRecursion
            ELSE [j \in 1..Len(heap[cell.v]) |->
                     PyValue(heap[cell.v][j], heap, path \cup {cell.v})]

\* Index of the topmost mark of the stack, 0 if there is none.
TopMark(stack) ==
    LET marks == {i \in 1..Len(stack) : stack[i].k = "mark"}
    IN IF marks = {} THEN 0 ELSE CHOOSE i \in marks : \A j \in marks : j <= i

\* The stack holds k items above its topmost mark.
HasItems(stack, k) ==
    /\ Len(stack) >= k
    /\ \A j \in 0..(k - 1) : stack[Len(stack) - j].k # "mark"

\* The unpickler: its stack, the list objects made so far, and the memo.
NewUnpickler == [stack |-> <<>>, heap |-> <<>>, memo |-> <<>>]

Push(u, cell) == [u EXCEPT !.stack = Append(@, cell)]

MemoPut(u, idx) ==
    [u EXCEPT !.memo = (idx :> u.stack[Len(u.stack)]) @@ @]

\* Unpickler.load: run the opcodes from position i.  Running out of input,
\* a protocol above the highest, a frame longer than the rest of the file,
\* an opcode that finds no item above the topmost mark where it needs one
\* (or no mark where it needs a mark), a memo key that was never put, and an
\* append onto something that is no list all raise.
RECURSIVE load_run(_, _, _)
load_run(toks, i, u) ==
    IF i > Len(toks) THEN LoadFail
    ELSE LET op == toks[i].op
             arg == toks[i].arg
             stack == u.stack
             n == Len(u.stack)
             m == TopMark(u.stack)
             above == SubSeq(u.stack, m + 1, n)
             go(v) == load_run(toks, i + 1, v)
         IN CASE op = "PROTO" ->
                    IF arg > HIGHEST_PROTOCOL THEN LoadFail ELSE go(u)
              [] op = "FRAME" ->
                    IF arg > BytesFrom(toks, i + 1) THEN LoadFail ELSE go(u)
              [] op = "STOP" ->
                    IF ~HasItems(stack, 1) THEN LoadFail
                    ELSE [ok |-> TRUE, none |-> stack[n].k = "none",
                          v |-> PyValue(stack[n], u.heap, {})]
              [] op = "MARK" -> go(Push(u, SMark))
              [] op = "POP" ->
                    IF n = 0 THEN LoadFail
                    ELSE go([u EXCEPT !.stack = SubSeq(stack, 1, n - 1)])
              [] op = "POP_MARK" ->
                    IF m = 0 THEN LoadFail
                    ELSE go([u EXCEPT !.stack = SubSeq(stack, 1, m - 1)])
              [] op = "DUP" ->
                    IF ~HasItems(stack, 1) THEN LoadFail
                    ELSE go(Push(u, stack[n]))
              [] op = "NONE" -> go(Push(u, SNone))
              [] op = "NEWTRUE" -> go(Push(u, SImm(TRUE)))
              [] op = "NEWFALSE" -> go(Push(u, SImm(FALSE)))
              [] op \in {"BININT", "BININT1", "BININT2", "BINFLOAT"} ->
                    go(Push(u, SImm(arg)))
              [] op = "EMPTY_LIST" ->
                    go([u EXCEPT !.heap = Append(@, <<>>),
                                 !.stack = Append(@, SRef(Len(u.heap) + 1))])
              [] op = "LIST" ->
                    IF m = 0 THEN LoadFail
                    ELSE go([u EXCEPT !.heap = Append(@, above),
                                 !.stack = Append(SubSeq(stack, 1, m - 1),
                                                  SRef(Len(u.heap) + 1))])
              [] op = "APPEND" ->
                    IF ~HasItems(stack, 2) THEN LoadFail
                    ELSE IF stack[n - 1].k # "ref" THEN LoadFail
                    ELSE go([u EXCEPT !.heap[stack[n - 1].v] = Append(@, stack[n]),
                                      !.stack = SubSeq(stack, 1, n - 1)])
              [] op = "APPENDS" ->
                    IF m < 2 \/ stack[m - 1].k = "mark" THEN LoadFail
                    ELSE IF n = m
                    THEN go([u EXCEPT !.stack = SubSeq(stack, 1, m - 1)])
                    ELSE IF stack[m - 1].k # "ref" THEN LoadFail
                    ELSE go([u EXCEPT !.heap[stack[m - 1].v] = @ \o above,
                                      !.stack = SubSeq(stack, 1, m - 1)])
              [] op = "EMPTY_TUPLE" -> go(Push(u, STuple(<<>>)))
              [] op = "TUPLE" ->
                    IF m = 0 THEN LoadFail
                    ELSE go([u EXCEPT !.stack = Append(SubSeq(stack, 1, m - 1),
                                                       STuple(above))])
              [] op \in {"TUPLE1", "TUPLE2", "TUPLE3"} ->
                    LET k == CASE op = "TUPLE1" -> 1 [] op = "TUPLE2" -> 2
                               [] op = "TUPLE3" -> 3
                    IN IF ~HasItems(stack, k) THEN LoadFail
                       ELSE go([u EXCEPT !.stack =
                                   Append(SubSeq(stack, 1, n - k),
                                          STuple(SubSeq(stack, n - k + 1, n)))])
              [] op = "MEMOIZE" ->
                    IF ~HasItems(stack, 1) THEN LoadFail
                    ELSE go(MemoPut(u, Cardinality(DOMAIN u.memo)))
              [] op \in {"BINPUT", "LONG_BINPUT"} ->
                    IF ~HasItems(stack, 1) THEN LoadFail
                    ELSE go(MemoPut(u, arg))
              [] op \in {"BINGET", "LONG_BINGET"} ->
                    IF arg \notin DOMAIN u.memo THEN LoadFail
                    ELSE go(Push(u, u.memo[arg]))
              [] op \notin ModelledOpcodes \cup UnmodelledOpcodes -> LoadFail

\* pickle.load(f)
pickle_load(toks) == load_run(toks, 1, NewUnpickler)

\* ------------------------------------------------------------ PointSelector
\* The handlers act on the selector's three fields; the drawing they also do
\* (ax.plot, info text, canvas.draw) changes no field.
SelState == [sp |-> selected_points, cl |-> current_line, idx |-> current_line_index]

on_click_anywhere(st, inaxes, p) == [st EXCEPT !.cl = Append(st.cl, p)]

\* PointSelector.on_click: a press outside the axes is ignored.
on_click(st, inaxes, p) ==
    IF ~inaxes THEN st ELSE [st EXCEPT !.cl = Append(st.cl, p)]

finish_line_unguarded(st) ==
    [sp |-> Append(st.sp, st.cl), cl |-> <<>>, idx |-> st.idx + 1]

\* PointSelector.finish_line
finish_line(st) ==
    IF st.cl # <<>>
    THEN [sp |-> Append(st.sp, st.cl), cl |-> <<>>, idx |-> st.idx + 1]
    ELSE st

\* PointSelector.new_line
new_line(st) == IF st.cl # <<>> THEN finish_line(st) ELSE st

\* A Clear Current Line that discards the finished polylines as well.
clear_current_line_and_finished(st) ==
    IF st.cl = <<>> THEN st ELSE [st EXCEPT !.cl = <<>>, !.sp = <<>>]

\* PointSelector.clear_current_line
clear_current_line(st) == IF st.cl = <<>> THEN st ELSE [st EXCEPT !.cl = <<>>]

\* PointSelector.clear_all
clear_all(st) == [sp |-> <<>>, cl |-> <<>>, idx |-> 0]

\* PointSelector.print_points: finishes the current line, then only prints.
print_points(st) == IF st.cl # <<>> THEN finish_line(st) ELSE st

on_close_unfinished(st) == st

\* PointSelector.on_close: the in-progress line is appended (current_line
\* itself is left as it is) and the result is a copy of selected_points.
on_close(st) ==
    [st EXCEPT !.sp = IF st.cl # <<>> THEN Append(st.sp, st.cl) ELSE st.sp]

SetSel(st) ==
    /\ selected_points' = st.sp
    /\ current_line' = st.cl
    /\ current_line_index' = st.idx

callvars == <<spc, filename, pfile, ret, constructed, load_failed, save_failed,
              saved, file_at_call>>

InSession == spc = "session"

OnClick ==
    /\ InSession
    /\ nclicks < MaxClicks
    /\ \E inaxes \in BOOLEAN, p \in Points :
          /\ SetSel(on_click(SelState, inaxes, p))
          /\ clicked' = IF inaxes THEN Append(clicked, p) ELSE clicked
    /\ nclicks' = nclicks + 1
    /\ event' = "on_click"
    /\ prev' = SelState
    /\ UNCHANGED <<result, callvars, lookvars>>

NewLine ==
    /\ InSession
    /\ SetSel(new_line(SelState))
    /\ event' = "new_line"
    /\ prev' = SelState
    /\ UNCHANGED <<result, nclicks, clicked, callvars, lookvars>>

FinishLine ==
    /\ InSession
    /\ SetSel(finish_line(SelState))
    /\ event' = "finish_line"
    /\ prev' = SelState
    /\ UNCHANGED <<result, nclicks, clicked, callvars, lookvars>>

ClearCurrentLine ==
    /\ InSession
    /\ SetSel(clear_current_line(SelState))
    /\ event' = "clear_current_line"
    /\ prev' = SelState
    /\ clicked' = SubSeq(clicked, 1, Len(clicked) - Len(current_line))
    /\ UNCHANGED <<result, nclicks, callvars, lookvars>>

ClearAll ==
    /\ InSession
    /\ SetSel(clear_all(SelState))
    /\ event' = "clear_all"
    /\ prev' = SelState
    /\ clicked' = <<>>
    /\ UNCHANGED <<result, nclicks, callvars, lookvars>>

PrintPoints ==
    /\ InSession
    /\ SetSel(print_points(SelState))
    /\ event' = "print_points"
    /\ prev' = SelState
    /\ UNCHANGED <<result, nclicks, clicked, callvars, lookvars>>

\* The close event ends plt.show(), which __init__ is blocked in.
OnClose ==
    /\ InSession
    /\ LET st == on_close(SelState)
       IN /\ SetSel(st)
          /\ result' = Some(st.sp)
    /\ event' = "on_close"
    /\ prev' = SelState
    /\ spc' = "closed"
    /\ UNCHANGED <<nclicks, clicked, filename, pfile, ret, constructed,
                   load_failed, save_failed, saved, file_at_call, lookvars>>

\* ------------------------------------------------------------ select_points
Filenames == {"", "points.pkl"}

NoFile == [exists |-> FALSE, data |-> <<>>]

select_points_load_never(fname, pf) ==
    [hit |-> FALSE, points |-> None, failed |-> FALSE]

\* The object pickle.load returned, as select_points holds it.
Loaded(r) == IF r.none THEN None ELSE Some(r.v)

\* The load block: os.path.exists, then pickle.load inside try/except
\* Exception.  hit: the function returns the loaded points; failed: the load
\* raised and the except branch printed and fell through.
select_points_load(fname, pf) ==
    IF fname # "" /\ pf.exists
    THEN LET r == pickle_load(pf.data)
         IN IF r.ok
            THEN [hit |-> TRUE, points |-> Loaded(r), failed |-> FALSE]
            ELSE [hit |-> FALSE, points |-> None, failed |-> TRUE]
    ELSE [hit |-> FALSE, points |-> None, failed |-> FALSE]

\* What the file system can do to the save block: the write goes through;
\* makedirs or open raises (the file is untouched); or the write raises after
\* open(filename, 'wb') has truncated the file and k opcodes have reached it.
SaveOutcomes(points) ==
    LET n == Len(pickle_dump(points.v))
    IN {[kind |-> "ok", k |-> n], [kind |-> "open_raises", k |-> 0]}
         \cup {[kind |-> "dump_raises", k |-> k] : k \in {0, n \div 2, n - 1}}

\* The save block without its try/except: a failure propagates.
select_points_save_uncaught(points, fname, pf, outcome) ==
    IF fname # "" /\ Truthy(points) /\ outcome.kind # "ok"
    THEN [ret |-> None, failed |-> TRUE, raised |-> TRUE, pfile |-> pf]
    ELSE [ret |-> points, failed |-> FALSE, raised |-> FALSE,
          pfile |-> IF fname # "" /\ Truthy(points)
                    THEN [exists |-> TRUE, data |-> pickle_dump(points.v)]
                    ELSE pf]

\* The save block and the return: the file is written only for a filename and
\* a truthy result; an exception in the block is caught and printed, and the
\* in-memory points are returned either way.
select_points_save(points, fname, pf, outcome) ==
    IF fname # "" /\ Truthy(points)
    THEN CASE outcome.kind = "ok" ->
                [ret |-> points, failed |-> FALSE, raised |-> FALSE,
                 pfile |-> [exists |-> TRUE, data |-> pickle_dump(points.v)]]
           [] outcome.kind = "open_raises" ->
                [ret |-> points, failed |-> TRUE, raised |-> FALSE, pfile |-> pf]
           [] OTHER ->
                [ret |-> points, failed |-> TRUE, raised |-> FALSE,
                 pfile |-> [exists |-> TRUE,
                            data |-> SubSeq(pickle_dump(points.v), 1, outcome.k)]]
    ELSE [ret |-> points, failed |-> FALSE, raised |-> FALSE, pfile |-> pf]

\* select_points up to the point where it returns the loaded list or blocks
\* in PointSelector.__init__ (plt.show()).
SelectPointsCall ==
    /\ spc \in {"idle", "returned"}
    /\ \E fname \in Filenames :
         LET ld == select_points_load(fname, pfile)
         IN /\ filename' = fname
            /\ file_at_call' = pfile
            /\ load_failed' = ld.failed
            /\ save_failed' = FALSE
            /\ IF ld.hit
               THEN /\ spc' = "returned"
                    /\ ret' = ld.points
                    /\ constructed' = FALSE
                    /\ UNCHANGED <<selected_points, current_line,
                                   current_line_index, result, event, nclicks,
                                   prev, clicked>>
               ELSE \* PointSelector.__init__
                    /\ spc' = "session"
                    /\ ret' = None
                    /\ constructed' = TRUE
                    /\ selected_points' = <<>>
                    /\ current_line' = <<>>
                    /\ current_line_index' = 0
                    /\ result' = None
                    /\ event' = "__init__"
                    /\ nclicks' = 0
                    /\ prev' = clear_all(SelState)
                    /\ clicked' = <<>>
    /\ UNCHANGED <<pfile, saved, lookvars>>

\* select_points after the window closed: get_result, the save block, return.
SelectPointsReturn ==
    /\ spc = "closed"
    /\ \E outcome \in (IF filename # "" /\ Truthy(result)
                       THEN SaveOutcomes(result) ELSE {[kind |-> "ok", k |-> 0]}) :
         LET sv == select_points_save(result, filename, pfile, outcome)
         IN /\ spc' = IF sv.raised THEN "raised" ELSE "returned"
            /\ ret' = IF sv.raised THEN None ELSE sv.ret
            /\ save_failed' = sv.failed
            /\ pfile' = sv.pfile
            /\ saved' = IF /\ ~file_at_call.exists
                            /\ filename # "" /\ Truthy(result)
                            /\ ~sv.failed /\ ~sv.raised
                         THEN sv.ret ELSE saved
    /\ UNCHANGED <<selected_points, current_line, current_line_index, result,
                   event, nclicks, prev, clicked, filename, constructed,
                   load_failed, file_at_call, lookvars>>

\* pickle.dumps([[[1, 2]]], protocol=2): integers, and BINPUT for the memo.
Protocol2File ==
    <<Tok("PROTO", 2),
      Tok("EMPTY_LIST", 0), Tok("BINPUT", 0),
      Tok("EMPTY_LIST", 0), Tok("BINPUT", 1),
      Tok("EMPTY_LIST", 0), Tok("BINPUT", 2),
      Tok("MARK", 0), Tok("BININT1", 1), Tok("BININT1", 2), Tok("APPENDS", 0),
      Tok("APPEND", 0), Tok("APPEND", 0), Tok("STOP", 0)>>

\* pickle.dumps(None)
NoneFile == <<Tok("PROTO", 4), Tok("NONE", 0), Tok("STOP", 0)>>

\* The file a run can find at the path: none, one a previous run saved, one
\* holding an empty list, one another program pickled (a list of integer
\* points in protocol 2, or None), or one whose content does not unpickle.
InitFiles ==
    {NoFile,
     [exists |-> TRUE, data |-> pickle_dump(<< <<<<1, 2>>, <<3, 4>>>> >>)],
     [exists |-> TRUE, data |-> pickle_dump(<<>>)],
     [exists |-> TRUE, data |-> Protocol2File],
     [exists |-> TRUE, data |-> NoneFile],
     [exists |-> TRUE, data |-> SubSeq(pickle_dump(<< <<<<1, 2>>>> >>), 1, 3)]}

\* ---------------------------------------------------- PhaseLookupCalculator
\* Latitudes and longitudes are in thousandths of a degree: x stands for the
\* double nearest x/1000.  f"{x:.2f}" prints the sign and that double rounded
\* to hundredths ("-0.00" for -0.001).  For a value halfway between two
\* hundredths the digit depends on where the double lies: below the half
\* (1.005 prints 1.00), above it (0.005 prints 0.01), or on it, when the
\* even hundredth is printed (0.125 prints 0.12, 0.375 prints 0.38).
Abs(x) == IF x < 0 THEN -x ELSE x

RECURSIVE Pow2Mod1000(_)
Pow2Mod1000(e) ==
    IF e = 0 THEN 1
    ELSE IF e % 2 = 1 THEN (2 * Pow2Mod1000(e - 1)) % 1000
    ELSE LET half == Pow2Mod1000(e \div 2) IN (half * half) % 1000

RECURSIVE ExpUp(_, _)
ExpUp(a, p) == IF a < 2 * p THEN 0 ELSE 1 + ExpUp(a, 2 * p)

RECURSIVE ExpDown(_)
ExpDown(a) == IF a >= 1000 THEN 0 ELSE 1 + ExpDown(2 * a)

\* The binary exponent k of a/1000, a > 0: 2^k <= a/1000 < 2^(k+1).
BinaryExponent(a) == IF a >= 1000 THEN ExpUp(a, 1000) ELSE -ExpDown(a)

\* Where the double nearest a/1000 lies against a/1000 itself: -1 below, 0 on
\* it, 1 above.  The double is m / 2^e with e = 52 - k and m the integer
\* nearest a * 2^e / 1000, so the side is read off a * 2^e modulo 1000 (the
\* remainder 500 cannot occur: 2^3 divides a * 2^e).
DoubleVsDecimal(a) ==
    LET r == ((a % 1000) * Pow2Mod1000(52 - BinaryExponent(a))) % 1000
    IN IF r = 0 THEN 0 ELSE IF r < 500 THEN -1 ELSE 1

Fmt2(x) ==
    LET a == Abs(x)
        h == a \div 10
        side == DoubleVsDecimal(a)
    IN [neg |-> x < 0,
        hundredths |->
            IF a % 10 # 5 THEN (a + 5) \div 10
            ELSE IF side = 0 THEN (IF h % 2 = 0 THEN h ELSE h + 1)
            ELSE IF side < 0 THEN h
            ELSE h + 1]

\* A file name that leaves the longitude out.
_filename_without_lon(c, group) ==
    [dir |-> "data", group |-> group, lat |-> Fmt2(c.lat), lon |-> Fmt2(0)]

\* PhaseLookupCalculator._filename: the text
\* data_dir/{group}_lookup_{lat:.2f}_{lon:.2f}.nc, held as its variable parts
\* (the separators are fixed and the two numbers hold no underscore, so the
\* parts determine the text and the text the parts).
_filename(c, group) ==
    [dir |-> "data", group |-> group, lat |-> Fmt2(c.lat), lon |-> Fmt2(c.lon)]

\* A cell of a data variable: NaN or a number.
NaN == [nan |-> TRUE, v |-> 0]
Num(x) == [nan |-> FALSE, v |-> x]

Quantities == {"arrival_time", "incidence_angle", "takeoff_angle", "efficiency"}

\* The index set (receiver_depth, distance, source_depth) of a calculator.
CellIndex(c) ==
    (1..Len(c.receiver_depth_grid)) \X (1..Len(c.distance_grid))
        \X (1..Len(c.source_depth_grid))

\* _calculate_lookup, lines 56-85: four arrays of NaN over the three axes.
EmptyDataset(c) ==
    [coords |-> [receiver_depth |-> c.receiver_depth_grid,
                 distance |-> c.distance_grid,
                 source_depth |-> c.source_depth_grid],
     arrival_time |-> [ix \in CellIndex(c) |-> NaN],
     incidence_angle |-> [ix \in CellIndex(c) |-> NaN],
     takeoff_angle |-> [ix \in CellIndex(c) |-> NaN],
     efficiency |-> [ix \in CellIndex(c) |-> NaN]]

\* One row of df_list, from one arrival the tracer returned.  The arrival's
\* x is kept in the unit of the distance grid (a.x * cake.d2m undoes the
\* distance_grid * cake.m2d of the call), so that the rows of one grid
\* distance share one key.
DfRow(a) ==
    [distance |-> a.x,
     arrival_time |-> Abs(a.t),
     incidence_angle |-> a.inc % 180,
     takeoff_angle |-> a.tk,
     efficiency |-> a.eff]

RECURSIVE SortSet(_)
SortSet(S) ==
    IF S = {} THEN <<>>
    ELSE LET m == CHOOSE x \in S : \A y \in S : x <= y
         IN <<m>> \o SortSet(S \ {m})

\* df.groupby('distance')['arrival_time'].idxmin(): per distance, in
\* ascending order of the distance, the label of the first row holding the
\* group's smallest arrival_time.
idxmin(df) ==
    LET keys == SortSet({df[i].distance : i \in 1..Len(df)})
        grp(d) == {i \in 1..Len(df) : df[i].distance = d}
        best(d) == CHOOSE i \in grp(d) :
                      /\ \A j \in grp(d) : df[i].arrival_time <= df[j].arrival_time
                      /\ \A j \in grp(d) :
                            df[j].arrival_time = df[i].arrival_time => i <= j
    IN [k \in 1..Len(keys) |-> best(keys[k])]

\* ds[quantity].values[rec_i, :, src_i] = df[quantity].values: numpy copies
\* element by element when the lengths agree, repeats a single value along
\* the axis, and raises ValueError for any other length.
assign_rows(d, c, r, s, rows) ==
    LET nd == Len(c.distance_grid)
        k == Len(rows)
        put(q) == [ix \in CellIndex(c) |->
                     IF ix[1] = r /\ ix[3] = s
                     THEN Num(rows[IF k = 1 THEN 1 ELSE ix[2]][q])
                     ELSE d[q][ix]]
    IN IF k = nd \/ k = 1
       THEN [raised |-> FALSE,
             ds |-> [d EXCEPT !.arrival_time = put("arrival_time"),
                              !.incidence_angle = put("incidence_angle"),
                              !.takeoff_angle = put("takeoff_angle"),
                              !.efficiency = put("efficiency")]]
       ELSE [raised |-> TRUE, ds |-> d]

\* The body of the two loops of _calculate_lookup for one (receiver, source)
\* pair, given the arrivals the tracer returned: an empty DataFrame has no
\* 'distance' column, groupby raises KeyError and the except clause passes.
calculate_pair(d, c, r, s, arrs) ==
    LET df == [i \in 1..Len(arrs) |-> DfRow(arrs[i])]
    IN IF df = <<>>
       THEN [raised |-> FALSE, ds |-> d]
       ELSE LET labels == idxmin(df)
            IN assign_rows(d, c, r, s, [k \in 1..Len(labels) |-> df[labels[k]]])

\* No calculator has been constructed.
NoCalc == [lat |-> 0, lon |-> 0, distance_grid |-> <<>>,
           source_depth_grid |-> <<>>, receiver_depth_grid |-> <<>>]

NoDataset == [coords |-> [receiver_depth |-> <<>>, distance |-> <<>>,
                          source_depth |-> <<>>],
              arrival_time |-> <<>>, incidence_angle |-> <<>>,
              takeoff_angle |-> <<>>, efficiency |-> <<>>]

LookupIdle ==
    /\ calc = NoCalc
    /\ files = <<>>
    /\ file_origin = <<>>
    /\ file_log = <<>>
    /\ unreadable = {}
    /\ lpc = "none"
    /\ phase_groups = <<>>
    /\ gi = 0
    /\ results = <<>>
    /\ ds = NoDataset
    /\ rec_i = 0
    /\ src_i = 0
    /\ arrivals = <<>>
    /\ traced = [on |-> FALSE, r |-> 0, s |-> 0]
    /\ tracer_calls = <<>>
    /\ err = ""
    /\ ncalls = 0
    /\ completed = {}
    /\ prior = {}

InitSelect ==
    /\ LookupIdle
    /\ selected_points = <<>>
    /\ current_line = <<>>
    /\ current_line_index = 0
    /\ result = None
    /\ event = "none"
    /\ nclicks = 0
    /\ prev = [sp |-> <<>>, cl |-> <<>>, idx |-> 0]
    /\ clicked = <<>>
    /\ spc = "idle"
    /\ filename = ""
    /\ pfile \in InitFiles
    /\ ret = None
    /\ constructed = FALSE
    /\ load_failed = FALSE
    /\ save_failed = FALSE
    /\ saved = None
    /\ file_at_call = NoFile

NextSelect ==
    \/ SelectPointsCall
    \/ OnClick
    \/ NewLine
    \/ FinishLine
    \/ ClearCurrentLine
    \/ ClearAll
    \/ PrintPoints
    \/ OnClose
    \/ SelectPointsReturn

SpecSelect == InitSelect /\ [][NextSelect]_vars

\* ------------------------------------------------- claims on select_points
Finished(st) == st.sp \o (IF st.cl # <<>> THEN <<st.cl>> ELSE <<>>)

\* C5: once a call that found no file at the path has saved a non-empty list
\* L, every call with that filename returns L: the same polylines in the same
\* order with the same points.
C5_RoundTrip ==
    (spc = "returned" /\ filename # "" /\ ~saved.none) => ret = saved

\* A later call returned by loading the file a first call saved, and the
\* list holds two polylines.
C5_Witness ==
    /\ spc = "returned" /\ filename # "" /\ ~constructed
    /\ ~saved.none /\ Len(saved.v) = 2 /\ saved.v[1] # saved.v[2]
    /\ ret = saved

\* C6: a call with a filename whose file exists and unpickles returns the
\* stored lists, constructs no PointSelector and leaves the file as it was.
C6_LoadWithoutSession ==
    (/\ spc # "idle" /\ filename # ""
     /\ file_at_call.exists /\ pickle_load(file_at_call.data).ok)
    => /\ spc = "returned"
       /\ ret = Loaded(pickle_load(file_at_call.data))
       /\ ~constructed
       /\ pfile = file_at_call

C6_Witness ==
    /\ spc = "returned" /\ filename # "" /\ ~constructed
    /\ file_at_call.exists /\ Truthy(ret)

\* C7: a failing load or save never escapes select_points: after a failed
\* load the interactive session runs and its result is returned, and after a
\* failed save the session's in-memory result is returned unchanged.
C7_FailuresDoNotEscape ==
    /\ spc # "raised"
    /\ load_failed => (constructed /\ spc \in {"session", "closed", "returned"})
    /\ (spc = "returned" /\ (load_failed \/ save_failed)) => ret = result

\* A call whose load failed and whose save failed returned the session's list.
C7_Witness ==
    /\ spc = "returned" /\ load_failed /\ save_failed
    /\ Truthy(ret) /\ ret = result

\* C8: the result set by the close event is the finished polylines in the
\* order they were finished, followed by the in-progress line when it holds a
\* point; select_points hands that result on.
C8_CloseResult ==
    /\ event = "on_close" => result = Some(Finished(prev))
    /\ (event \in {"finish_line", "new_line", "print_points"} /\ prev.cl # <<>>)
          => selected_points = Append(prev.sp, prev.cl)
    /\ (spc = "returned" /\ constructed) => ret = result

\* The window closed on one finished polyline and a non-empty line in progress.
C8_Witness ==
    /\ event = "on_close" /\ Len(prev.sp) = 1 /\ prev.cl # <<>>
    /\ prev.cl # prev.sp[1]
    /\ result = Some(<<prev.sp[1], prev.cl>>)

NoEmptyPolyline(L) == \A i \in 1..Len(L) : L[i] # <<>>

\* C9: no polyline of selected_points or of the result is empty, and Finish
\* Line or New Line fired on an empty current line changes none of
\* selected_points, current_line and current_line_index.
C9_NoEmptyPolyline ==
    /\ NoEmptyPolyline(selected_points)
    /\ ~result.none => NoEmptyPolyline(result.v)
    /\ (spc = "returned" /\ constructed) => NoEmptyPolyline(ret.v)
    /\ (event \in {"finish_line", "new_line"} /\ prev.cl = <<>>) => SelState = prev

\* Finish Line was fired on an empty current line after a line was finished.
C9_Witness ==
    /\ event = "finish_line" /\ prev.cl = <<>> /\ Len(prev.sp) = 1
    /\ SelState = prev

\* C10: Clear Current Line empties current_line and leaves the finished
\* polylines and current_line_index as they were; Clear All empties
\* selected_points and current_line and sets current_line_index to 0.
C10_ClearFrames ==
    /\ event = "clear_current_line"
          => /\ current_line = <<>>
             /\ selected_points = prev.sp
             /\ current_line_index = prev.idx
    /\ event = "clear_all"
          => /\ selected_points = <<>>
             /\ current_line = <<>>
             /\ current_line_index = 0

\* Clear Current Line was fired with a finished polyline and a non-empty
\* line in progress.
C10_Witness ==
    /\ event = "clear_current_line" /\ prev.cl # <<>> /\ Len(prev.sp) = 1
    /\ current_line = <<>> /\ selected_points = prev.sp /\ current_line_index = 1


\* --------------------------------------------------------- the ray tracer
\* model.arrivals is the external ray tracer: for the distances asked it
\* returns any list of arrivals, or raises.  Rays a distance can be reached
\* by: RayA and RayB arrive at the same absolute time (RayA with a negative
\* time and an incidence angle beyond 180), RayC arrives earlier.
Rays ==
    {[t |-> -7, inc |-> 200, tk |-> 30, eff |-> 1],
     [t |-> 7, inc |-> 40, tk |-> 50, eff |-> 2],
     [t |-> 5, inc |-> 60, tk |-> 70, eff |-> 3]}

Range(f) == {f[i] : i \in DOMAIN f}

ArrivalsAt(grid) ==
    {[x |-> x, t |-> ray.t, inc |-> ray.inc, tk |-> ray.tk, eff |-> ray.eff] :
        x \in Range(grid), ray \in Rays}

TracerOutcomes(c) ==
    {[raised |-> TRUE, arrivals |-> <<>>]}
      \cup {[raised |-> FALSE, arrivals |-> a] :
              a \in UNION {[1..n -> ArrivalsAt(c.distance_grid)] : n \in 0..MaxArrivals}}

\* --------------------------------------------------------------- __call__
selstate == <<selvars>>

CurrentGroup == phase_groups[gi]

\* The end of one iteration of the for loop of __call__: the next group, or
\* return results.
NextGroup ==
    IF gi < Len(phase_groups)
    THEN /\ gi' = gi + 1
         /\ lpc' = "group"
         /\ completed' = completed
    ELSE /\ gi' = gi
         /\ lpc' = "returned"
         /\ completed' = completed \cup
               {<<phase_groups[i], calc.lat, calc.lon>> : i \in 1..Len(phase_groups)}

\* The locals of a __call__ that is not running.
NoCallInProgress ==
    /\ phase_groups' = <<>>
    /\ gi' = 0
    /\ results' = <<>>
    /\ ds' = NoDataset
    /\ rec_i' = 0
    /\ src_i' = 0
    /\ arrivals' = <<>>
    /\ traced' = [on |-> FALSE, r |-> 0, s |-> 0]
    /\ tracer_calls' = <<>>
    /\ err' = ""

\* PhaseLookupCalculator.__init__: a new calculator, on which no call has
\* run (os.makedirs and cake.load_model change nothing that is modelled).
NewCalculator(locations, grids) ==
    /\ lpc \in {"none", "returned", "raised"}
    /\ ncalls < MaxCalls
    /\ \E loc \in locations, g \in grids :
          calc' = [lat |-> loc[1], lon |-> loc[2], distance_grid |-> g.distance,
                   source_depth_grid |-> g.source, receiver_depth_grid |-> g.receiver]
    /\ lpc' = "idle"
    /\ NoCallInProgress
    /\ UNCHANGED <<files, unreadable, file_origin, file_log, ncalls, completed, prior, selstate>>

\* __call__(phase_groups): results = {} and the loop is entered; for an
\* empty dict the loop body never runs and {} is returned at once.
Call(dicts) ==
    /\ lpc \in {"idle", "returned", "raised"}
    /\ ncalls < MaxCalls
    /\ \E pg \in dicts :
          /\ phase_groups' = pg
          /\ tracer_calls' = [g \in Range(pg) |-> 0]
          /\ IF pg = <<>>
             THEN /\ gi' = 0
                  /\ lpc' = "returned"
             ELSE /\ gi' = 1
                  /\ lpc' = "group"
    /\ results' = <<>>
    /\ ds' = NoDataset
    /\ rec_i' = 0
    /\ src_i' = 0
    /\ arrivals' = <<>>
    /\ traced' = [on |-> FALSE, r |-> 0, s |-> 0]
    /\ err' = ""
    /\ ncalls' = ncalls + 1
    /\ prior' = completed
    /\ UNCHANGED <<calc, files, unreadable, file_origin, file_log, completed, selstate>>

\* An exception left __call__ from the body of the loop: the locals are
\* gone and nothing is returned.
Raise(e) ==
    /\ lpc' = "raised"
    /\ err' = e
    /\ results' = <<>>
    /\ UNCHANGED <<gi, completed>>

\* The cache file of the group exists: results[group] = xr.open_dataset(fname).
\* A file the library cannot open makes open_dataset raise, which nothing
\* catches.
LoadGroup ==
    /\ lpc = "group"
    /\ _filename(calc, CurrentGroup) \in DOMAIN files
    /\ IF _filename(calc, CurrentGroup) \in unreadable
       THEN Raise("OSError")
       ELSE /\ results' = (CurrentGroup :> files[_filename(calc, CurrentGroup)])
                              @@ results
            /\ NextGroup
            /\ err' = err
    /\ UNCHANGED <<calc, files, unreadable, file_origin, file_log, phase_groups,
                   ds, rec_i, src_i, arrivals, traced, tracer_calls, ncalls,
                   prior, selstate>>

\* No cache file: _calculate_lookup is entered and builds the NaN dataset.
\* With no receiver depth or no source depth the inner loop body never runs:
\* the function returns the dataset as built, without a tracer call.
StartCompute ==
    /\ lpc = "group"
    /\ _filename(calc, CurrentGroup) \notin DOMAIN files
    /\ ds' = EmptyDataset(calc)
    /\ IF calc.receiver_depth_grid = <<>> \/ calc.source_depth_grid = <<>>
       THEN /\ rec_i' = 0
            /\ src_i' = 0
            /\ lpc' = "return"
       ELSE /\ rec_i' = 1
            /\ src_i' = 1
            /\ lpc' = "sweep"
    /\ arrivals' = <<>>
    /\ traced' = [on |-> FALSE, r |-> 0, s |-> 0]
    /\ UNCHANGED <<calc, files, unreadable, file_origin, file_log, phase_groups, gi, results,
                   tracer_calls, err, ncalls, completed, prior, selstate>>

\* One iteration of the inner loop of _calculate_lookup: the tracer call for
\* (rec_i, src_i) and the assignment of its rows.  An exception (the
\* tracer's, or the ValueError of the assignment) leaves __call__.
TracePair ==
    /\ lpc = "sweep"
    /\ \E out \in TracerOutcomes(calc) :
         LET res == IF out.raised THEN [raised |-> TRUE, ds |-> ds]
                    ELSE calculate_pair(ds, calc, rec_i, src_i, out.arrivals)
             last == rec_i = Len(calc.receiver_depth_grid)
                       /\ src_i = Len(calc.source_depth_grid)
         IN /\ arrivals' = out.arrivals
            /\ traced' = [on |-> ~out.raised, r |-> rec_i, s |-> src_i]
            /\ tracer_calls' = [tracer_calls EXCEPT ![CurrentGroup] = @ + 1]
            /\ IF res.raised
               THEN /\ lpc' = "raised"
                    /\ err' = IF out.raised THEN "TracerError" ELSE "ValueError"
                    /\ results' = <<>>
                    /\ UNCHANGED <<ds, rec_i, src_i>>
               ELSE /\ ds' = res.ds
                    /\ err' = err
                    /\ results' = results
                    /\ IF last
                       THEN /\ lpc' = "return"
                            /\ UNCHANGED <<rec_i, src_i>>
                       ELSE /\ lpc' = "sweep"
                            /\ IF src_i < Len(calc.source_depth_grid)
                               THEN /\ src_i' = src_i + 1
                                    /\ rec_i' = rec_i
                               ELSE /\ src_i' = 1
                                    /\ rec_i' = rec_i + 1
    /\ UNCHANGED <<calc, files, unreadable, file_origin, file_log, phase_groups, gi, ncalls,
                   completed, prior, selstate>>

\* The loops of _calculate_lookup are over: return ds.  Its locals are gone;
\* the dataset is the value __call__ puts in results[group].
ReturnDataset ==
    /\ lpc = "return"
    /\ lpc' = "write"
    /\ rec_i' = 0
    /\ src_i' = 0
    /\ arrivals' = <<>>
    /\ traced' = [on |-> FALSE, r |-> 0, s |-> 0]
    /\ UNCHANGED <<calc, files, unreadable, file_origin, file_log,
                   phase_groups, gi, results, ds, tracer_calls, err, ncalls,
                   completed, prior, selstate>>

\* The to_netcdf calls made on a file name so far.
Writes(name) == IF name \in DOMAIN file_log THEN file_log[name].writes ELSE 0

\* The data variables in the order the dataset holds them.
QuantityOrder == <<"arrival_time", "incidence_angle", "takeoff_angle", "efficiency">>

\* A table of which only the first k data variables were written; the others
\* hold no data.
PartialTable(d, k) ==
    [q \in DOMAIN d |->
        IF \E j \in (k + 1)..Len(QuantityOrder) : QuantityOrder[j] = q
        THEN [ix \in DOMAIN d[q] |-> NaN]
        ELSE d[q]]

\* What to_netcdf can do: write the whole file and return; raise before the
\* file is created; or raise after it has created the file and written k of
\* the data variables, leaving a file that open_dataset can or cannot open.
\* The interrupted writes taken are those that stop before the first data
\* variable.
WriteOutcomes ==
    {[kind |-> "ok", k |-> Len(QuantityOrder), opens |-> TRUE],
     [kind |-> "no_file", k |-> 0, opens |-> FALSE],
     [kind |-> "partial", k |-> 0, opens |-> TRUE],
     [kind |-> "partial", k |-> 0, opens |-> FALSE]}

\* __call__ without the to_netcdf line.
WriteFileNotSaved ==
    /\ lpc = "write"
    /\ results' = (CurrentGroup :> ds) @@ results
    /\ NextGroup
    /\ ds' = NoDataset
    /\ UNCHANGED <<calc, files, unreadable, file_origin, file_log, phase_groups,
                   rec_i, src_i, arrivals, traced, tracer_calls, err, ncalls,
                   prior, selstate>>

\* results[group] = the dataset _calculate_lookup returned, and
\* results[group].to_netcdf(fname).
\* to_netcdf writes to the final name and __call__ has no handler around it:
\* when it raises, what it has written so far stays at that name.
WriteFile ==
    /\ lpc = "write"
    /\ \E out \in WriteOutcomes :
         LET name == _filename(calc, CurrentGroup)
         IN /\ IF out.kind = "no_file"
               THEN UNCHANGED <<files, unreadable, file_origin, file_log>>
               ELSE /\ files' = (name :> PartialTable(ds, out.k)) @@ files
                    /\ unreadable' = IF out.opens THEN unreadable \ {name}
                                     ELSE unreadable \cup {name}
                    /\ file_origin' =
                          (name :> <<CurrentGroup, calc.lat, calc.lon>>)
                             @@ file_origin
                    /\ file_log' =
                          (name :> [writes |-> Writes(name) + 1,
                                    pairs |-> tracer_calls[CurrentGroup],
                                    written |-> out.k]) @@ file_log
            /\ IF out.kind = "ok"
               THEN /\ results' = (CurrentGroup :> ds) @@ results
                    /\ NextGroup
                    /\ err' = err
               ELSE Raise("OSError")
    /\ ds' = NoDataset
    /\ UNCHANGED <<calc, phase_groups, rec_i, src_i, arrivals, traced,
                   tracer_calls, ncalls, prior, selstate>>

SelectIdle ==
    /\ selected_points = <<>>
    /\ current_line = <<>>
    /\ current_line_index = 0
    /\ result = None
    /\ event = "none"
    /\ nclicks = 0
    /\ prev = [sp |-> <<>>, cl |-> <<>>, idx |-> 0]
    /\ clicked = <<>>
    /\ spc = "idle"
    /\ filename = ""
    /\ pfile = NoFile
    /\ ret = None
    /\ constructed = FALSE
    /\ load_failed = FALSE
    /\ save_failed = FALSE
    /\ saved = None
    /\ file_at_call = NoFile

Grid(d, s, r) == [distance |-> d, source |-> s, receiver |-> r]

\* ---- one calculator, its sweeps over grids of every shape ----
\* Distance grids: ascending, descending, with a repeated distance, of one
\* and of three distances; one or two receiver and source depths.
SweepGrids ==
    {Grid(<<10>>, <<1, 2>>, <<0, 5>>),
     Grid(<<10, 20>>, <<1>>, <<0, 5>>),
     Grid(<<20, 10>>, <<1>>, <<0>>),
     Grid(<<10, 10>>, <<1>>, <<0>>),
     Grid(<<10, 20, 30>>, <<1>>, <<0>>)}


SweepLocations == {<<1001, 2000>>}

SweepDicts == {<<"p">>}

SweepNewCalculator == NewCalculator(SweepLocations, SweepGrids)

SweepCall == Call(SweepDicts)

InitLookup == SelectIdle /\ LookupIdle

NextSweep ==
    \/ SweepNewCalculator
    \/ SweepCall
    \/ LoadGroup
    \/ StartCompute
    \/ TracePair
    \/ ReturnDataset
    \/ WriteFile

SpecSweep == InitLookup /\ [][NextSweep]_vars

\* ---- several calculators sharing data_dir ----
\* Locations: the first two print as 1.00_2.00 (the double 1.005 lies below
\* the half), the last as 1.00_2.01.
CacheLocations == {<<1001, 2000>>, <<1005, 2000>>, <<1001, 2010>>}

CacheGrids == {Grid(<<10>>, <<1>>, <<0>>), Grid(<<20>>, <<1>>, <<0>>)}

CacheDicts == {<<"p">>, <<"p", "s">>}

CacheNewCalculator == NewCalculator(CacheLocations, CacheGrids)

CacheCall == Call(CacheDicts)

NextCache ==
    \/ CacheNewCalculator
    \/ CacheCall
    \/ LoadGroup
    \/ StartCompute
    \/ TracePair
    \/ ReturnDataset
    \/ WriteFile

SpecCache == InitLookup /\ [][NextCache]_vars

\* ---- one location, several groups per call ----
\* A grid of three distances (an assignment of two rows raises ValueError),
\* a grid whose sweep has two (receiver depth, source depth) pairs and one
\* with no receiver depth, whose sweep has none.
GroupsGrids ==
    {Grid(<<10, 20, 30>>, <<1>>, <<0>>),
     Grid(<<10>>, <<1>>, <<0, 5>>),
     Grid(<<20>>, <<1>>, <<>>)}

GroupsLocations == {<<1001, 2000>>}

GroupsDicts == {<<>>, <<"p">>, <<"p", "s">>}

GroupsNewCalculator == NewCalculator(GroupsLocations, GroupsGrids)

GroupsCall == Call(GroupsDicts)

NextGroups ==
    \/ GroupsNewCalculator
    \/ GroupsCall
    \/ LoadGroup
    \/ StartCompute
    \/ TracePair
    \/ ReturnDataset
    \/ WriteFile

SpecGroups == InitLookup /\ [][NextGroups]_vars

\* ------------------------------------------- claims on the lookup tables
Cell(d, r, di, si) ==
    [q \in Quantities |-> d[q][<<r, di, si>>]]

NaNCell == [q \in Quantities |-> NaN]

\* The labels of the arrivals the tracer returned at distance x.
ArrivalsAtDistance(x) == {i \in 1..Len(arrivals) : arrivals[i].x = x}

\* The arrival of smallest absolute time at distance x, the first returned
\* among equals.
FirstMinArrival(x) ==
    LET at == ArrivalsAtDistance(x)
        i == CHOOSE i \in at :
                /\ \A j \in at : Abs(arrivals[i].t) <= Abs(arrivals[j].t)
                /\ \A j \in at : Abs(arrivals[j].t) = Abs(arrivals[i].t) => i <= j
    IN arrivals[i]

\* C2: after the tracer returned for a (receiver, source) pair, the sweep has
\* not raised and every distance of the grid without an arrival holds NaN in
\* all four variables at that pair.
C2_NoArrivalIsNaN ==
    traced.on =>
       /\ lpc # "raised"
       /\ \A di \in 1..Len(calc.distance_grid) :
             ArrivalsAtDistance(calc.distance_grid[di]) = {}
                => Cell(ds, traced.r, di, traced.s) = NaNCell

\* C3: after the tracer returned for a pair and the assignment went through,
\* every distance of the grid with an arrival holds, at that pair, the
\* quantities of its earliest arrival (the first returned of a tie).
C3_MinArrivalPerCell ==
    (traced.on /\ lpc # "raised") =>
       \A di \in 1..Len(calc.distance_grid) :
          ArrivalsAtDistance(calc.distance_grid[di]) # {}
             => LET row == DfRow(FirstMinArrival(calc.distance_grid[di]))
                IN Cell(ds, traced.r, di, traced.s) = [q \in Quantities |-> Num(row[q])]

Triple(i) == <<phase_groups[i], calc.lat, calc.lon>>

\* C1: a group whose (group, lat, lon) an earlier invocation completed is
\* answered from its cache file: no tracer call is made for it, and the
\* dataset returned is the file's content, whatever the calculator's grids.
C1_CacheHit ==
    \A i \in 1..Len(phase_groups) :
       Triple(i) \in prior =>
          /\ tracer_calls[phase_groups[i]] = 0
          /\ lpc = "returned" =>
                /\ _filename(calc, phase_groups[i]) \in DOMAIN files
                /\ results[phase_groups[i]] = files[_filename(calc, phase_groups[i])]

\* A second invocation for the same group and location returned the table
\* of the first, whose distance axis is not this calculator's.
C1_Witness ==
    /\ lpc = "returned"
    /\ \E i \in 1..Len(phase_groups) :
          /\ Triple(i) \in prior
          /\ tracer_calls[phase_groups[i]] = 0
          /\ results[phase_groups[i]].coords.distance # calc.distance_grid

NameOf(t) == _filename([lat |-> t[2], lon |-> t[3]], t[1])

\* C4 as claimed: triples that differ in group, latitude or longitude have
\* different file names, and a returned table was computed for the group and
\* location it is returned for.
C4_OneFilePerLocation ==
    /\ \A t1, t2 \in completed : t1 # t2 => NameOf(t1) # NameOf(t2)
    /\ lpc = "returned" =>
          \A i \in 1..Len(phase_groups) :
             file_origin[_filename(calc, phase_groups[i])] = Triple(i)

SamePrinted(t1, t2) ==
    /\ t1[1] = t2[1]
    /\ Fmt2(t1[2]) = Fmt2(t2[2])
    /\ Fmt2(t1[3]) = Fmt2(t2[3])

\* C4 as amended: two triples have the same file name exactly when they agree
\* in the group name and in latitude and longitude as printed with two
\* decimals, and a returned table was computed for such a triple.
C4_OneFilePerPrintedLocation ==
    /\ \A t1, t2 \in completed : SamePrinted(t1, t2) <=> NameOf(t1) = NameOf(t2)
    /\ lpc = "returned" =>
          \A i \in 1..Len(phase_groups) :
             /\ _filename(calc, phase_groups[i]) \in DOMAIN file_origin
             /\ SamePrinted(file_origin[_filename(calc, phase_groups[i])], Triple(i))

\* Invocations completed for triples with different file names, and the one
\* returning now got a table computed for another latitude.
C4_Witness ==
    /\ lpc = "returned"
    /\ \E t1, t2 \in completed : NameOf(t1) # NameOf(t2)
    /\ \E i \in 1..Len(phase_groups) :
          /\ file_origin[_filename(calc, phase_groups[i])] # Triple(i)
          /\ SamePrinted(file_origin[_filename(calc, phase_groups[i])], Triple(i))

\* The (receiver depth, source depth) pairs of the table a file holds.
PairsOf(d) == Len(d.coords.receiver_depth) * Len(d.coords.source_depth)

\* The errors that end the sweep of a group.
SweepErrors == {"TracerError", "ValueError"}

\* C11: every cache file that exists was written by exactly one to_netcdf
\* call, made after the tracer had been called for every (receiver depth,
\* source depth) pair of the table it holds, can be opened and holds all
\* four data variables of that table; while the sweep of a group runs the
\* group has no file; and when an error has ended the sweep of a group, that
\* group has no file while every group the loop passed before it has.
C11_WrittenOnceAfterFullSweep ==
    /\ \A n \in DOMAIN files :
          /\ n \in DOMAIN file_log
          /\ file_log[n].writes = 1
          /\ file_log[n].pairs = PairsOf(files[n])
          /\ n \notin unreadable
          /\ file_log[n].written = Len(QuantityOrder)
    /\ lpc \in {"sweep", "return", "write"} =>
          _filename(calc, CurrentGroup) \notin DOMAIN files
    /\ (lpc = "raised" /\ err \in SweepErrors) =>
          /\ _filename(calc, CurrentGroup) \notin DOMAIN files
          /\ \A i \in 1..(gi - 1) :
                _filename(calc, phase_groups[i]) \in DOMAIN files

\* C12: once the close event has been handled, the polylines of the result,
\* joined in their order, are exactly the points pressed inside the axes
\* since the last Clear All, in the order of the presses, less those a Clear
\* Current Line discarded; the result holds as many points as that, so none
\* is lost or doubled, and a press outside the axes has added none.
C12_NoPointLost ==
    event = "on_close" =>
        /\ ~result.none
        /\ Concat(result.v) = clicked
        /\ Len(Concat(result.v)) <= nclicks

\* Two presses inside the axes with a New Line or Finish Line between them,
\* then the close event: two polylines of one point each.
C12_Witness ==
    /\ event = "on_close"
    /\ nclicks = 2
    /\ clicked = << <<3, 4>>, <<1, 2>> >>
    /\ ~result.none
    /\ result.v = << << <<3, 4>> >>, << <<1, 2>> >> >>

====
